---- MODULE Spec2Model ----
(***************************************************************************)
(* State-machine model of qsdsan._process.Process (src/qsdsan/_process.py). *)
(*                                                                         *)
(* A coefficient is a value  (n/d) * p^a * Abs(p)^b  where n/d is a        *)
(* reduced rational and p is the one free parameter symbol of a symbolic   *)
(* vector; a numeric (np.ndarray) vector only holds values with a = b = 0. *)
(* The non-finite results of a division by zero are kept as values of      *)
(* their own: inf, -inf and nan for numpy floats, zoo and nan for sympy.   *)
(* The rate equation is such a value too: its coefficient relative to the  *)
(* expression parsed at construction.                                      *)
(***************************************************************************)
EXTENDS Integers, Sequences, FiniteSets, TLC

\* ---------------------------------------------------------------- bounds
\* largest magnitude of an integer coefficient returned by the parser
MaxCoef == 2
\* largest exponent of the parameter symbol the rate equation may carry
MaxExp == 2

\* ------------------------------------------------------- value arithmetic
AbsInt(x) == IF x < 0 THEN -x ELSE x

SgnInt(x) == IF x < 0 THEN -1 ELSE IF x > 0 THEN 1 ELSE 0

RECURSIVE GCD(_, _)
GCD(x, y) == IF y = 0 THEN x ELSE GCD(y, x % y)

\* the value (n/d) * p^a * Abs(p)^b in canonical form (d > 0, reduced, 0 = 0/1)
Fin(n, d, a, b) ==
    IF n = 0 THEN [k |-> "fin", n |-> 0, d |-> 1, a |-> 0, b |-> 0]
    ELSE LET g == GCD(AbsInt(n), AbsInt(d))
             s == SgnInt(d)
         IN [k |-> "fin", n |-> (s * n) \div g, d |-> AbsInt(d) \div g, a |-> a, b |-> b]

Num(n) == Fin(n, 1, 0, 0)

Special(kind) == [k |-> kind, n |-> 0, d |-> 0, a |-> 0, b |-> 0]

Inf == Special("inf")

NInf == Special("ninf")

Zoo == Special("zoo")

NaN == Special("nan")

IsFin(x) == x.k = "fin"

\* v != 0 of Python: nan, inf and zoo all differ from 0
IsZero(x) == IsFin(x) /\ x.n = 0

\* unary minus (float.__neg__, Expr.__neg__)
Neg(x) ==
    CASE x.k = "fin" -> Fin(-x.n, x.d, x.a, x.b)
      [] x.k = "inf" -> NInf
      [] x.k = "ninf" -> Inf
      [] OTHER -> x

\* abs(): Abs(q * p^a * Abs(p)^b) = |q| * Abs(p)^(a+b); abs(zoo) = oo
Abs(x) ==
    CASE x.k = "fin" -> Fin(AbsInt(x.n), x.d, 0, x.a + x.b)
      [] x.k = "nan" -> NaN
      [] OTHER -> Inf

\* x * y (float64 and sympy multiplication)
Mul(x, y) ==
    CASE x.k = "nan" \/ y.k = "nan" -> NaN
      [] IsFin(x) /\ IsFin(y) -> Fin(x.n * y.n, x.d * y.d, x.a + y.a, x.b + y.b)
      [] IsZero(x) \/ IsZero(y) -> NaN
      [] x.k = "zoo" \/ y.k = "zoo" -> Zoo
      [] OTHER ->
            LET sx == IF IsFin(x) THEN SgnInt(x.n) ELSE IF x.k = "inf" THEN 1 ELSE -1
                sy == IF IsFin(y) THEN SgnInt(y.n) ELSE IF y.k = "inf" THEN 1 ELSE -1
            IN IF sx * sy > 0 THEN Inf ELSE NInf

\* x / y with the non-raising division of numpy floats (0/0 = nan, x/0 = +-inf)
\* and of sympy expressions (0/0 = nan, x/0 = zoo)
Div(x, y, isarray) ==
    CASE x.k = "nan" \/ y.k = "nan" -> NaN
      [] IsZero(y) ->
            IF IsZero(x) THEN NaN
            ELSE IF ~isarray THEN Zoo
            ELSE IF x.k = "inf" \/ (IsFin(x) /\ x.n > 0) THEN Inf ELSE NInf
      [] IsFin(y) /\ IsFin(x) -> Fin(x.n * y.d, x.d * y.n, x.a - y.a, x.b - y.b)
      [] IsFin(y) ->
            IF x.k = "zoo" THEN Zoo
            ELSE IF (x.k = "inf") = (y.n > 0) THEN Inf ELSE NInf
      [] IsFin(x) -> Num(0)
      [] OTHER -> NaN

\* x + y of numpy floats (only used by the matrix-vector product)
Add(x, y) ==
    CASE x.k = "nan" \/ y.k = "nan" -> NaN
      [] IsFin(x) /\ IsFin(y) -> Fin(x.n * y.d + y.n * x.d, x.d * y.d, 0, 0)
      [] IsFin(x) -> y
      [] IsFin(y) -> x
      [] x.k = y.k -> x
      [] OTHER -> NaN

\* abs(x) <= tol of numpy floats: false for nan and inf
AbsLeq(x, tol) == IsFin(x) /\ AbsInt(x.n) * tol.d <= tol.n * x.d

\* ------------------------------------------------------------ the catalog
\* components.IDs: the ordered species names of the catalog
IDs == <<"S_O2", "X_B">>

\* a name that is no species of the catalog
UnknownID == "S_XX"

\* the falsy value of Python (None or '')
None == "None"

\* components._index[name]; a KeyError when the name is no species
HasIndex(name) == \E i \in DOMAIN IDs : IDs[i] = name

index(name) == CHOOSE i \in DOMAIN IDs : IDs[i] = name

\* getattr(cmps, 'i_' + material): one conversion factor per species
i_(material) ==
    CASE material = "COD" -> [i \in DOMAIN IDs |-> Num(IF i = 1 THEN -1 ELSE 1)]
      [] material = "N" -> [i \in DOMAIN IDs |-> Num(IF i = 1 THEN 0 ELSE 1)]

\* symbols(p)
symbols(p) == <<"Symbol", p>>

\* ---------------------------------------------------------------- state
VARIABLES
    constructed,        \* __init__ returned without raising
    isarray,            \* _stoichiometry is an np.ndarray (numeric), else a list
    stoichiometry,      \* _stoichiometry: one value per species, in catalog order
    rate_equation,      \* _rate_equation
    ref_component,      \* _ref_component: a name
    conserved_for,      \* _conserved_for: a tuple of material names
    conservation_for,   \* _conservation_for: the attribute get_conversion_factors reads
    parameters,         \* _parameters: name -> symbol
    last,               \* the last call: its name, argument and the state it started in
    raised,             \* the exception the last call raised, or NoError
    ret,                \* what the last call returned
    nrev,               \* number of reverse() calls in a row ending with the last call (0..2)
    assigned            \* the setter has assigned ref_component to a species without raising

vars == <<constructed, isarray, stoichiometry, rate_equation, ref_component,
          conserved_for, conservation_for, parameters, last, raised, ret, nrev,
          assigned>>

NoError == "NoError"

\* an attribute no statement of the class assigns
Undefined == [defined |-> FALSE, value |-> << >>]

\* the rate equation of an object whose construction did not get to set it
Unset == Special("unset")

\* the fields of the object a call starts from
Snapshot ==
    [stoichiometry |-> stoichiometry, rate_equation |-> rate_equation,
     ref_component |-> ref_component, conserved_for |-> conserved_for,
     parameters |-> parameters]

Call(op, arg) == [op |-> op, arg |-> arg, pre |-> Snapshot]

\* ------------------------------------------------------------ construction
\* get_stoichiometric_coeff: a dense vector in catalog order, all numeric or
\* all expressions, normalized so that the reference coefficient has magnitude 1
get_stoichiometric_coeff(ref, numeric) ==
    { v \in [DOMAIN IDs -> {Fin(q, 1, IF numeric THEN 0 ELSE 1, 0) : q \in (-MaxCoef)..MaxCoef}
                            \cup {Num(1), Num(-1)}] :
        /\ v[index(ref)] \in {Num(1), Num(-1)}
        /\ \A i \in DOMAIN IDs : i # index(ref) => (v[i] = Num(0) \/ v[i].a = (IF numeric THEN 0 ELSE 1)) }

\* _parse_rate_eq: parse_expr raises on None and on the empty text
parse_rate_eq_raises(eq) == eq = None

\* the value of the parsed rate expression, relative to itself
ParsedRate == Num(1)

\* the arguments __init__ is called with
InitArgs ==
    [ref : {IDs[i] : i \in DOMAIN IDs}, numeric : BOOLEAN,
     rate : {None, "rate"}, cons : {<<"COD", "N">>},
     pars : {None, <<"k_h">>, <<"S_O2">>}]

Range(s) == {s[i] : i \in DOMAIN s}

Init ==
    \E x \in InitArgs :
    \E v \in get_stoichiometric_coeff(x.ref, x.numeric) :
        LET ok == x.pars # None /\ ~parse_rate_eq_raises(x.rate) IN
        /\ constructed = ok
        /\ isarray = x.numeric
        /\ ref_component = x.ref
        /\ conserved_for = x.cons
        /\ conservation_for = Undefined
        /\ parameters = IF x.pars = None THEN << >> ELSE [p \in Range(x.pars) |-> symbols(p)]
        /\ stoichiometry = IF ok THEN v ELSE << >>
        /\ rate_equation = IF ok THEN ParsedRate ELSE Unset
        /\ last = [op |-> "__init__", arg |-> x, pre |-> << >>]
        /\ raised = IF x.pars = None THEN "TypeError"
                    ELSE IF parse_rate_eq_raises(x.rate) THEN "ParseError" ELSE NoError
        /\ ret = None
        /\ nrev = 0
        /\ assigned = FALSE

\* ---------------------------------------------------------------- reverse
NonZero(x) == ~IsZero(x)

\* a reverse() that rebuilds the vector from its non-zero entries only
reverse_stoichiometry_sparse(v) == SelectSeq([i \in DOMAIN v |-> Neg(v[i])], NonZero)

reverse_stoichiometry(v) == [i \in DOMAIN v |-> Neg(v[i])]

\* reverse() that forgets the rate equation
reverse_rate_keeps(r) == r

reverse_rate(r) == Neg(r)

\* -self._rate_equation runs after the stoichiometry is negated and fails
\* when __init__ did not get to assign the attribute
reverse_raised(r) == IF r = Unset THEN "AttributeError" ELSE NoError

Reverse ==
    /\ constructed
    /\ stoichiometry' = reverse_stoichiometry(stoichiometry)
    /\ rate_equation' = reverse_rate(rate_equation)
    /\ last' = Call("reverse", None)
    /\ raised' = reverse_raised(rate_equation)
    /\ ret' = None
    /\ nrev' = IF nrev < 2 THEN nrev + 1 ELSE 2
    /\ UNCHANGED <<constructed, assigned, isarray, ref_component, conserved_for, conservation_for, parameters>>

\* ------------------------------------------------- ref_component (setter)
\* a normalization that divides by the signed entry of new_ref
normalize_stoichiometry_signed(v, new_ref, numeric) ==
    LET factor == v[index(new_ref)]
    IN [i \in DOMAIN v |-> Div(v[i], factor, numeric)]

\* _normalize_stoichiometry: every entry divided by abs(entry of new_ref)
normalize_stoichiometry(v, new_ref, numeric) ==
    LET factor == Abs(v[index(new_ref)])
    IN [i \in DOMAIN v |-> Div(v[i], factor, numeric)]

\* _normalize_rate_eq: the rate times the entry of new_ref, read from the
\* vector it is given (the setter hands it the vector already divided)
normalize_rate_eq(rate, v, new_ref) ==
    LET factor == v[index(new_ref)]
    IN Mul(rate, factor)

\* the names a caller may assign
RefArgs == {IDs[i] : i \in DOMAIN IDs} \cup {UnknownID, None}

\* the exponents of the parameter symbol stay within the bound
WithinExp(x) == x.a \in (-MaxExp)..MaxExp /\ x.b \in (-MaxExp)..MaxExp

SetRefComponent(ref_cmp) ==
    /\ constructed
    /\ IF ref_cmp = None
       THEN /\ raised' = NoError
            /\ UNCHANGED <<ref_component, stoichiometry, rate_equation>>
       ELSE /\ ref_component' = ref_cmp
            /\ IF ~HasIndex(ref_cmp)
               THEN /\ raised' = "KeyError"
                    /\ UNCHANGED <<stoichiometry, rate_equation>>
               ELSE /\ stoichiometry' = normalize_stoichiometry(stoichiometry, ref_cmp, isarray)
                    /\ rate_equation' = normalize_rate_eq(rate_equation, stoichiometry', ref_cmp)
                    /\ WithinExp(rate_equation')
                    /\ raised' = NoError
    /\ last' = Call("ref_component", ref_cmp)
    /\ ret' = None
    /\ nrev' = 0
    /\ assigned' = (assigned \/ (ref_cmp # None /\ HasIndex(ref_cmp)))
    /\ UNCHANGED <<constructed, isarray, conserved_for, conservation_for, parameters>>

\* ------------------------------------------------- conserved_for (setter)
ConservedArgs == {<< >>, <<"N", "COD">>}

SetConservedFor(materials) ==
    /\ constructed
    /\ conserved_for' = materials
    /\ last' = Call("conserved_for", materials)
    /\ raised' = NoError
    /\ ret' = None
    /\ nrev' = 0
    /\ UNCHANGED <<constructed, assigned, isarray, stoichiometry, rate_equation, ref_component,
                   conservation_for, parameters>>

\* ------------------------------------------------------ append_parameters
\* for p in new_pars: self._parameters[p] = symbols(p)
append_parameters(pars, new_pars) ==
    [p \in DOMAIN pars \cup Range(new_pars) |->
        IF p \in Range(new_pars) THEN symbols(p) ELSE pars[p]]

\* append_parameters has no raise statement
append_parameters_raised(pars, new_pars) == NoError

ParArgs == {<<"K_O2">>, <<"k_h">>, <<"K_O2", "S_O2">>}

AppendParameters(new_pars) ==
    /\ constructed
    /\ parameters' = append_parameters(parameters, new_pars)
    /\ raised' = append_parameters_raised(parameters, new_pars)
    /\ last' = Call("append_parameters", new_pars)
    /\ ret' = None
    /\ nrev' = 0
    /\ UNCHANGED <<constructed, assigned, isarray, stoichiometry, rate_equation, ref_component,
                   conserved_for, conservation_for>>

\* ------------------------------------------------- get_conversion_factors
\* reads self._conservation_for; one row per material, stacked in order (a
\* single material gives its row alone); None when the tuple is empty
get_conversion_factors(cf, as_matrix) ==
    IF ~cf.defined
    THEN [raised |-> "AttributeError", none |-> TRUE, matrix |-> FALSE, rows |-> << >>]
    ELSE IF cf.value = << >>
    THEN [raised |-> NoError, none |-> TRUE, matrix |-> FALSE, rows |-> << >>]
    ELSE [raised |-> NoError, none |-> FALSE, matrix |-> as_matrix,
          rows |-> [r \in DOMAIN cf.value |-> i_(cf.value[r])]]

GetConversionFactors(as_matrix) ==
    /\ constructed
    /\ LET r == get_conversion_factors(conservation_for, as_matrix)
       IN /\ raised' = r.raised
          /\ ret' = [none |-> r.none, matrix |-> r.matrix, rows |-> r.rows]
    /\ last' = Call("get_conversion_factors", as_matrix)
    /\ nrev' = 0
    /\ UNCHANGED <<constructed, assigned, isarray, stoichiometry, rate_equation, ref_component,
                   conserved_for, conservation_for, parameters>>

\* ----------------------------------------------------- check_conservation
RECURSIVE DotFrom(_, _, _)
DotFrom(row, v, i) ==
    IF i > Len(row) THEN Num(0)
    ELSE Add(Mul(row[i], v[i]), DotFrom(row, v, i + 1))

\* one entry of ic @ v
Dot(row, v) == DotFrom(row, v, 1)

\* [(materials[i], ic_dot_v[i]) for i, conserved in enumerate(conserved_arr) if not conserved]
RECURSIVE UnconservedFrom(_, _, _, _)
UnconservedFrom(materials, ic_dot_v, tol, i) ==
    IF i > Len(ic_dot_v) THEN << >>
    ELSE (IF AbsLeq(ic_dot_v[i], tol) THEN << >> ELSE << <<materials[i], ic_dot_v[i]>> >>)
         \o UnconservedFrom(materials, ic_dot_v, tol, i + 1)

NoResult == [raised |-> NoError, unconserved |-> << >>]

\* a check that raises its precondition error on no vector at all
check_conservation_unguarded(numeric, v, cf, materials, tol) == NoResult

check_conservation(numeric, v, cf, materials, tol) ==
    IF numeric
    THEN LET ic == get_conversion_factors(cf, FALSE) IN
         IF ic.raised # NoError THEN [raised |-> ic.raised, unconserved |-> << >>]
         ELSE IF ic.none THEN [raised |-> "TypeError", unconserved |-> << >>]
         ELSE LET ic_dot_v == [r \in DOMAIN ic.rows |-> Dot(ic.rows[r], v)]
                  allclose == \A r \in DOMAIN ic_dot_v : AbsLeq(ic_dot_v[r], tol)
              IN IF allclose THEN NoResult
                 ELSE IF Len(ic.rows) = 1 \/ Len(materials) < Len(ic.rows)
                 THEN [raised |-> "TypeError", unconserved |-> << >>]
                 ELSE [raised |-> "RuntimeError: unconserved",
                       unconserved |-> UnconservedFrom(materials, ic_dot_v, tol, 1)]
    ELSE [raised |-> "RuntimeError: not numerical", unconserved |-> << >>]

TolArgs == {Num(0), Num(1)}

CheckConservation(tol) ==
    /\ constructed
    /\ LET r == check_conservation(isarray, stoichiometry, conservation_for, conserved_for, tol)
       IN /\ raised' = r.raised
          /\ ret' = r.unconserved
    /\ last' = Call("check_conservation", tol)
    /\ nrev' = 0
    /\ UNCHANGED <<constructed, assigned, isarray, stoichiometry, rate_equation, ref_component,
                   conserved_for, conservation_for, parameters>>

\* ------------------------------------------------ stoichiometry (property)
\* dict(zip(IDs, v)): a later pair of the same name replaces an earlier one
zipdict(ids, v) ==
    LET n == IF Len(ids) < Len(v) THEN Len(ids) ELSE Len(v)
        last_of(name) == CHOOSE i \in 1..n : ids[i] = name /\ \A j \in 1..n : ids[j] = name => j <= i
    IN [name \in {ids[i] : i \in 1..n} |-> v[last_of(name)]]

\* a view that does not drop the zero entries
stoichiometry_view_dense(ids, v) == zipdict(ids, v)

\* {k: v for k, v in allcmps.items() if v != 0}
stoichiometry_view(ids, v) ==
    LET allcmps == zipdict(ids, v)
    IN [name \in {m \in DOMAIN allcmps : ~IsZero(allcmps[m])} |-> allcmps[name]]

GetStoichiometry ==
    /\ constructed
    /\ ret' = stoichiometry_view(IDs, stoichiometry)
    /\ raised' = NoError
    /\ last' = Call("stoichiometry", None)
    /\ nrev' = 0
    /\ UNCHANGED <<constructed, assigned, isarray, stoichiometry, rate_equation, ref_component,
                   conserved_for, conservation_for, parameters>>

\* ------------------------------------------------------------------ system
Next ==
    \/ Reverse
    \/ \E ref_cmp \in RefArgs : SetRefComponent(ref_cmp)
    \/ \E materials \in ConservedArgs : SetConservedFor(materials)
    \/ \E new_pars \in ParArgs : AppendParameters(new_pars)
    \/ \E as_matrix \in BOOLEAN : GetConversionFactors(as_matrix)
    \/ \E tol \in TolArgs : CheckConservation(tol)
    \/ GetStoichiometry

Spec == Init /\ [][Next]_vars

\* ------------------------------------------------------------ properties
\* the errors of the specification, as the exceptions the code raises for them
NonNumericStoichiometryError == "RuntimeError: not numerical"

ConservationViolationError == "RuntimeError: unconserved"

\* y is x with its sign flipped
IsNegationOf(y, x) ==
    CASE x.k = "fin" -> y.k = "fin" /\ y.n + x.n = 0 /\ y.d = x.d /\ y.a = x.a /\ y.b = x.b
      [] x.k = "inf" -> y.k = "ninf"
      [] x.k = "ninf" -> y.k = "inf"
      [] OTHER -> y.k = x.k

\* the sign of the rational factor of a finite value
Sign(x) == SgnInt(x.n)

\* the last call was ref_component = (a species of the catalog) and did not raise
AssignedSpecies ==
    /\ last.op = "ref_component"
    /\ last.arg # None
    /\ HasIndex(last.arg)
    /\ raised = NoError

\* the coefficient the assigned species had when the setter was called
OldCoef == last.pre.stoichiometry[index(last.arg)]

\* C1: one reverse() negates every stoichiometric coefficient and the rate
\* equation, and a reverse() that directly follows a reverse() gives back the
\* stoichiometry and the rate equation the first of the two started from.
C1_ReverseRoundTrip ==
    [][last'.op = "reverse" =>
        /\ \A i \in DOMAIN IDs : IsNegationOf(stoichiometry'[i], stoichiometry[i])
        /\ IsNegationOf(rate_equation', rate_equation)
        /\ (last.op = "reverse" =>
                /\ stoichiometry' = last.pre.stoichiometry
                /\ rate_equation' = last.pre.rate_equation)]_vars

\* two reverse() calls in a row on a symbolic vector that carries the parameter
C1_Witness ==
    /\ nrev = 2
    /\ ~isarray
    /\ \E i \in DOMAIN IDs : IsFin(stoichiometry[i]) /\ stoichiometry[i].a # 0
    /\ stoichiometry # last.pre.stoichiometry

\* C2: assigning ref_component to a species whose coefficient is exactly 0
\* raises an error and leaves the reference component, every coefficient and
\* the rate equation as they were.
C2_ZeroReferenceRejected ==
    (/\ last.op = "ref_component"
     /\ last.arg # None
     /\ HasIndex(last.arg)
     /\ IsZero(OldCoef))
    => /\ raised # NoError
       /\ ref_component = last.pre.ref_component
       /\ stoichiometry = last.pre.stoichiometry
       /\ rate_equation = last.pre.rate_equation

\* the residual of each conserved quantity: its factor row times the vector
Residuals == [r \in DOMAIN conserved_for |-> Dot(i_(conserved_for[r]), stoichiometry)]

\* C3: on a numeric vector check_conservation returns without error iff every
\* residual is within the tolerance, and otherwise raises the violation error
\* with exactly the violating quantities, each with its signed residual.
C3_ConservationCheck ==
    (last.op = "check_conservation" /\ isarray)
    => LET ok == \A r \in DOMAIN Residuals : AbsLeq(Residuals[r], last.arg)
       IN /\ (raised = NoError) <=> ok
          /\ ~ok => /\ raised = ConservationViolationError
                    /\ ret = UnconservedFrom(conserved_for, Residuals, last.arg, 1)

\* C4: after ref_component is assigned to a species whose coefficient c is a
\* non-zero number or expression, every coefficient is its previous value
\* divided by |c|: it gives the previous value back when multiplied by |c|, it
\* keeps its sign, and the new reference coefficient has magnitude 1.
C4_NormalizedByMagnitude ==
    (AssignedSpecies /\ IsFin(OldCoef) /\ ~IsZero(OldCoef))
    => /\ \A i \in DOMAIN IDs :
            /\ IsFin(stoichiometry[i])
            /\ Mul(stoichiometry[i], Abs(OldCoef)) = last.pre.stoichiometry[i]
            /\ Sign(stoichiometry[i]) = Sign(last.pre.stoichiometry[i])
       /\ Abs(stoichiometry[index(last.arg)]) = Num(1)

\* an assignment to a species whose coefficient was negative and not of
\* magnitude 1, which rescaled another non-zero coefficient
C4_Witness ==
    /\ AssignedSpecies
    /\ IsFin(OldCoef)
    /\ OldCoef.n < 0
    /\ Abs(OldCoef) # Num(1)
    /\ stoichiometry # last.pre.stoichiometry
    /\ \E i \in DOMAIN IDs : i # index(last.arg) /\ ~IsZero(stoichiometry[i])

\* C5: after ref_component is assigned to a species whose coefficient was c
\* (non-zero), the rate equation is the previous rate equation times c, the
\* coefficient as it was before the stoichiometry was divided.
C5_RateScaledByOldCoef ==
    (AssignedSpecies /\ IsFin(OldCoef) /\ ~IsZero(OldCoef))
    => rate_equation = Mul(last.pre.rate_equation, OldCoef)

\* a name that is a species of the catalog or a parameter the Process holds
Collides(name, pars) == HasIndex(name) \/ name \in DOMAIN pars

\* C6: append_parameters with a name that is a species or a parameter already
\* held raises an error and leaves the parameter mapping as it was; the
\* constructor raises on a parameter that bears the name of a species.
C6_DuplicateParameterRejected ==
    /\ (last.op = "append_parameters"
        /\ \E j \in DOMAIN last.arg : Collides(last.arg[j], last.pre.parameters))
       => (raised # NoError /\ parameters = last.pre.parameters)
    /\ (last.op = "__init__" /\ last.arg.pars # None
        /\ \E j \in DOMAIN last.arg.pars : HasIndex(last.arg.pars[j]))
       => raised # NoError

\* C7: the stoichiometry property returns a mapping from species names that
\* has no entry of value 0 and has every species whose dense coefficient is
\* not 0, with that coefficient.
C7_SparseView ==
    last.op = "stoichiometry"
    => /\ \A name \in DOMAIN ret : HasIndex(name) /\ ~IsZero(ret[name])
       /\ \A i \in DOMAIN IDs :
            ~IsZero(stoichiometry[i]) => (IDs[i] \in DOMAIN ret /\ ret[IDs[i]] = stoichiometry[i])

\* the property read after a reverse() or an assignment left a vector with a
\* zero entry and a non-zero entry that differs from the parsed one
C7_Witness ==
    /\ last.op = "stoichiometry"
    /\ \E i \in DOMAIN IDs : IsZero(stoichiometry[i])
    /\ \E i \in DOMAIN IDs : IsFin(stoichiometry[i]) /\ stoichiometry[i].n < 0
    /\ Cardinality(DOMAIN ret) < Len(IDs)

\* C8: assigning ref_component to the species that is already the reference
\* component leaves every stoichiometric coefficient unchanged.
C8_ReassignSameReference ==
    (last.op = "ref_component" /\ last.arg # None /\ HasIndex(last.arg)
     /\ last.arg = last.pre.ref_component)
    => stoichiometry = last.pre.stoichiometry

\* C9: get_conversion_factors returns None when conserved_for is empty and
\* otherwise one factor row per quantity of the current conserved_for, in its
\* order; it does not raise.
C9_ConversionFactors ==
    last.op = "get_conversion_factors"
    => /\ raised = NoError
       /\ ret.none <=> (conserved_for = << >>)
       /\ ~ret.none => ret.rows = [r \in DOMAIN conserved_for |-> i_(conserved_for[r])]

\* C10: check_conservation on a vector held as a list of expressions raises
\* the not-numerical error, computes no residual and leaves the stoichiometry,
\* the rate equation, the parameters and the conserved quantities as they were.
C10_NonNumericRejected ==
    (last.op = "check_conservation" /\ ~isarray)
    => /\ raised = NonNumericStoichiometryError
       /\ ret = << >>
       /\ stoichiometry = last.pre.stoichiometry
       /\ rate_equation = last.pre.rate_equation
       /\ parameters = last.pre.parameters
       /\ conserved_for = last.pre.conserved_for

\* the check called on a vector with an entry that carries the parameter
C10_Witness ==
    /\ last.op = "check_conservation"
    /\ ~isarray
    /\ \E i \in DOMAIN IDs : IsFin(stoichiometry[i]) /\ stoichiometry[i].a # 0

\* C11: a Process constructed with no rate equation text (None or empty) is
\* constructed without error and has its rate equation unset; reverse() on it
\* does not raise, negates every coefficient and leaves the rate unset.
C11_RatelessProcess ==
    /\ (last.op = "__init__" /\ last.arg.pars # None /\ last.arg.rate = None)
       => (constructed /\ raised = NoError /\ rate_equation = Unset)
    /\ (last.op = "reverse" /\ last.pre.rate_equation = Unset)
       => /\ raised = NoError
          /\ rate_equation = Unset
          /\ \A i \in DOMAIN IDs : IsNegationOf(stoichiometry[i], last.pre.stoichiometry[i])

\* C12: assigning ref_component to a name that is no species of the catalog
\* raises an error and applies nothing: the stoichiometry, the rate equation
\* and the recorded reference component are as before the assignment.
C12_UnknownReferenceRejected ==
    (last.op = "ref_component" /\ last.arg # None /\ ~HasIndex(last.arg))
    => /\ raised # NoError
       /\ stoichiometry = last.pre.stoichiometry
       /\ rate_equation = last.pre.rate_equation
       /\ ref_component = last.pre.ref_component

\* C13: once ref_component has been assigned to a species without an error,
\* the coefficient of the current reference species has magnitude 1 in every
\* later state.
C13_ReferenceMagnitudeOne ==
    (constructed /\ assigned /\ HasIndex(ref_component))
    => Abs(stoichiometry[index(ref_component)]) = Num(1)

\* a value an np.ndarray of floats can hold (numeric), or a list of sympy
\* expressions can hold
KindOK(x, numeric) ==
    IF numeric THEN x.a = 0 /\ x.b = 0 /\ x.k \in {"fin", "inf", "ninf", "nan"}
    ELSE x.k \in {"fin", "zoo", "nan"}

\* C14: every call on a constructed Process leaves a dense vector with one
\* entry per catalog species, of the kind (numeric array or list of
\* expressions) it had before, every entry of that kind; only reverse() and
\* the ref_component setter change an entry.
C14_DenseHomogeneous ==
    [][constructed =>
        /\ Len(stoichiometry') = Len(IDs)
        /\ DOMAIN stoichiometry' = DOMAIN IDs
        /\ isarray' = isarray
        /\ \A i \in DOMAIN stoichiometry' : KindOK(stoichiometry'[i], isarray')
        /\ (stoichiometry' # stoichiometry => last'.op \in {"reverse", "ref_component"})]_vars

\* a reverse() on a symbolic vector that was normalized by an entry carrying
\* the parameter, after parameters were appended and conserved_for reassigned
C14_Witness ==
    /\ constructed
    /\ assigned
    /\ ~isarray
    /\ last.op = "reverse"
    /\ "K_O2" \in DOMAIN parameters
    /\ conserved_for = <<"N", "COD">>
    /\ \E i \in DOMAIN IDs : IsFin(stoichiometry[i]) /\ stoichiometry[i].b # 0

====
